---- MODULE Spec2Model ----
(***************************************************************************)
(* certbot_deployer_bigip: the BIG-IP deployer's workflow engine.          *)
(*                                                                         *)
(* The model follows one BigipDeployer.  Its caller is either the          *)
(* entrypoint (mode "entrypoint": the deployer is built from the parsed    *)
(* arguments, the workflow is built and looped over) or a direct caller of *)
(* the deployer's methods (mode "api": any method, any component, any      *)
(* number of times, as the unit tests call them).  The appliance is the    *)
(* environment: every command gets an exit status and an output from it,   *)
(* every transfer succeeds or raises.                                      *)
(*                                                                         *)
(* Text that the code inspects character by character (command output,     *)
(* fingerprint, common name, staging path) is a sequence of one-character  *)
(* strings; text that the code only formats is a string.                   *)
(***************************************************************************)
EXTENDS Integers, Sequences, FiniteSets, TLC

VARIABLES
    mode,       \* "entrypoint" | "api": who calls the deployer
    channel,    \* "sound" | "faulty": whether the connection can fail under
                \* a command (the session is lost, the host is unreachable)
    args,       \* the parsed argument namespace handed to entrypoint (None
                \* for a direct caller, who constructs the deployer)
    state,      \* "Args" | "Built" | "Running" | "Succeeded" | "Failed", or
                \* for a direct caller "Api" | "ApiReturned"
    deployer,   \* the BigipDeployer (None until entrypoint builds it)
    workflow,   \* the task list get_workflow returned
    idx,        \* 1-based position of the for loop in workflow
    executed,   \* positions whose task.execute() has been called, in order
    remote,     \* what the connection was asked to do, in order
    transport,  \* conn.transport is set (the connection is open)
    console,    \* the lines printed to stdout
    raised,     \* the exception that reached the caller (None if none)
    call        \* the latest method call: what was called and how it ended

vars == <<mode, channel, args, state, deployer, workflow, idx, executed, remote,
          transport, console, raised, call>>

(***************************************************************************)
(* Python values                                                           *)
(***************************************************************************)
None == [tag |-> "None"]

Some(v) == [tag |-> "Some", val |-> v]

PyList(items) == [tag |-> "list", items |-> items]

PyDict(items) == [tag |-> "dict", items |-> items]

\* str(x) of an Optional[str], as an f-string renders it
PyStr(x) == IF x = None THEN "None" ELSE x.val

\* a sequence of characters as one string
RECURSIVE Str(_)
Str(s) == IF s = <<>> THEN "" ELSE Head(s) \o Str(Tail(s))

LowerLetters ==
    <<"a", "b", "c", "d", "e", "f", "g", "h", "i", "j", "k", "l", "m",
      "n", "o", "p", "q", "r", "s", "t", "u", "v", "w", "x", "y", "z">>

UpperLetters ==
    <<"A", "B", "C", "D", "E", "F", "G", "H", "I", "J", "K", "L", "M",
      "N", "O", "P", "Q", "R", "S", "T", "U", "V", "W", "X", "Y", "Z">>

Digits == <<"0", "1", "2", "3", "4", "5", "6", "7", "8", "9">>

HexDigits ==
    <<"0", "1", "2", "3", "4", "5", "6", "7", "8", "9",
      "a", "b", "c", "d", "e", "f">>

Range(s) == {s[i] : i \in DOMAIN s}

\* str.lower() and str.upper() of one character
LowerChar(c) ==
    IF c \in Range(UpperLetters)
    THEN LowerLetters[CHOOSE i \in DOMAIN UpperLetters : UpperLetters[i] = c]
    ELSE c

UpperChar(c) ==
    IF c \in Range(LowerLetters)
    THEN UpperLetters[CHOOSE i \in DOMAIN LowerLetters : LowerLetters[i] = c]
    ELSE c

LowerAll(s) == [i \in DOMAIN s |-> LowerChar(s[i])]

UpperAll(s) == [i \in DOMAIN s |-> UpperChar(s[i])]

\* needle in haystack, of two str
Contains(haystack, needle) ==
    \E i \in 0..(Len(haystack) - Len(needle)) :
        SubSeq(haystack, i + 1, i + Len(needle)) = needle

(***************************************************************************)
(* BigipCertificateBundle                                                  *)
(***************************************************************************)
\* hashes.SHA256: the digest has 32 bytes
DigestBytes == 32

FINGERPRINT_ALGO == <<"S", "H", "A", "2", "5", "6">>

\* bytes.hex(): two lower-case hexadecimal digits per byte
Hex(bytes) ==
    [i \in 1..(2 * Len(bytes)) |->
        IF i % 2 = 1
        THEN HexDigits[(bytes[(i + 1) \div 2] \div 16) + 1]
        ELSE HexDigits[(bytes[i \div 2] % 16) + 1]]

\* ":".join(fp[i : i + 2] for i in range(0, len(fp), 2)): the groups of
\* two characters (the last of one, if the length is odd), a colon between
\* two groups, so every third character of the result is a colon
JoinPairs(fp) ==
    [i \in 1..(Len(fp) + ((Len(fp) + 1) \div 2) - (IF Len(fp) = 0 THEN 0 ELSE 1)) |->
        IF i % 3 = 0 THEN ":" ELSE fp[i - (i \div 3)]]

\* mutant: the hex string is not upper-cased
_fingerprint_not_uppercased(digest) ==
    FINGERPRINT_ALGO \o <<"/">> \o JoinPairs(Hex(digest))

_fingerprint(digest) ==
    FINGERPRINT_ALGO \o <<"/">> \o JoinPairs(UpperAll(Hex(digest)))

\* re.sub(r"[^.a-zA-Z0-9_-]", "_", common_name)
SafeChars ==
    Range(LowerLetters) \cup Range(UpperLetters) \cup Range(Digits)
        \cup {".", "_", "-"}

\* mutant: the dot is not in the character class
Sanitize_replaces_dots(common_name) ==
    [i \in DOMAIN common_name |->
        IF common_name[i] \in SafeChars \ {"."} THEN common_name[i] ELSE "_"]

Sanitize(common_name) ==
    [i \in DOMAIN common_name |->
        IF common_name[i] \in SafeChars THEN common_name[i] ELSE "_"]

\* the components the framework's CertificateBundle holds for a lineage
Component(lineage, label, filename) ==
    [label |-> label, path |-> lineage \o "/" \o Str(filename), filename |-> filename]

BigipCertificateBundle(path, name, cert) ==
    [ path          |-> path,
      common_name   |-> cert.common_name,
      expires       |-> cert.expires,
      cert          |-> Component(path, "cert",
                           <<"c", "e", "r", "t", ".", "p", "e", "m">>),
      fullchain     |-> Component(path, "fullchain",
                           <<"f", "u", "l", "l", "c", "h", "a", "i", "n", ".", "p", "e", "m">>),
      intermediates |-> Component(path, "intermediates",
                           <<"c", "h", "a", "i", "n", ".", "p", "e", "m">>),
      key           |-> Component(path, "key",
                           <<"p", "r", "i", "v", "k", "e", "y", ".", "p", "e", "m">>),
      name          |-> IF name = None
                        THEN Str(Sanitize(cert.common_name)) \o "." \o cert.expires
                        ELSE name.val,
      fingerprint   |-> _fingerprint(cert.digest) ]

Components(bundle) ==
    {bundle.cert, bundle.fullchain, bundle.intermediates, bundle.key}

(***************************************************************************)
(* BigipTask                                                               *)
(***************************************************************************)
BigipTask(exec_function, name, exec_args, exec_kwargs, revert_function, revert_args, revert_kwargs) ==
    [ name            |-> name,
      exec_function   |-> exec_function,
      exec_kwargs     |-> IF exec_kwargs # None THEN exec_kwargs ELSE PyDict(<<>>),
      exec_args       |-> IF exec_args # None THEN exec_args ELSE PyList(<<>>),
      revert_function |-> revert_function,
      revert_kwargs   |-> IF revert_kwargs # None THEN revert_kwargs ELSE PyList(<<>>),
      revert_args     |-> IF revert_args # None THEN revert_args ELSE PyList(<<>>) ]

\* mutant: the name is compared too
__eq___with_name(self, othertask) ==
    <<self.name, self.exec_args, self.exec_function, self.exec_kwargs,
      self.revert_args, self.revert_function, self.revert_kwargs>>
    = <<othertask.name, othertask.exec_args, othertask.exec_function,
        othertask.exec_kwargs, othertask.revert_args, othertask.revert_function,
        othertask.revert_kwargs>>

\* BigipTask.__eq__ on two tasks: the comparison of the two tuples
__eq__(self, othertask) ==
    <<self.exec_args, self.exec_function, self.exec_kwargs,
      self.revert_args, self.revert_function, self.revert_kwargs>>
    = <<othertask.exec_args, othertask.exec_function, othertask.exec_kwargs,
        othertask.revert_args, othertask.revert_function, othertask.revert_kwargs>>

\* mutant: the bound positional arguments first, the call's keywords win
execute_call_wins(task, posargs, kwargs) ==
    [ fn     |-> task.exec_function,
      args   |-> task.exec_args.items \o posargs,
      kwargs |-> kwargs @@ task.exec_kwargs.items ]

\* what BigipTask.execute(*args, **kwargs) calls: the exec function with the
\* call's positional arguments followed by the bound ones, and the call's
\* keyword arguments updated with the bound ones
execute(task, posargs, kwargs) ==
    [ fn     |-> task.exec_function,
      args   |-> posargs \o task.exec_args.items,
      kwargs |-> task.exec_kwargs.items @@ kwargs ]

\* mutant: without a revert function the exec function is called
revert_falls_back_to_exec(task, posargs, kwargs) ==
    IF task.revert_function # None
    THEN <<[fn |-> task.revert_function.val, args |-> posargs, kwargs |-> kwargs]>>
    ELSE <<[fn |-> task.exec_function, args |-> posargs, kwargs |-> kwargs]>>

\* the calls BigipTask.revert(*args, **kwargs) makes: the revert function, if
\* there is one, with the call's arguments
revert(task, posargs, kwargs) ==
    IF task.revert_function # None
    THEN <<[fn |-> task.revert_function.val, args |-> posargs, kwargs |-> kwargs]>>
    ELSE <<>>

\* a task as get_workflow builds it: a name, a bound method, keyword arguments
NamedTask(name, exec_function, exec_kwargs) ==
    BigipTask(exec_function, Some(name), None, exec_kwargs, None, None, None)

ComponentKw(component) == PyDict([k \in {"component"} |-> component])

(***************************************************************************)
(* BigipDeployer: construction and get_workflow                            *)
(***************************************************************************)
BigipDeployer(host, dest_temp_dir, certificate_bundle, sync_group, profile) ==
    [ host               |-> host,
      dest_temp_dir      |-> dest_temp_dir,
      sync_group         |-> sync_group,
      certificate_bundle |-> certificate_bundle,
      profile            |-> profile ]

CertProfile(name, type) == Some([name |-> name, type |-> type])

ArgumentTypeError(msg) == Some([type |-> "ArgumentTypeError", msg |-> msg])

\* bool(x) of an Optional[str]
Truthy(x) == x # None /\ x.val # ""

\* mutant: an empty host passes, only a missing one is refused
argparse_post_empty_host_passes(a) ==
    IF Cardinality({k \in {"profile_name", "profile_type"} : a[k] = None}) = 1
    THEN ArgumentTypeError("If either '--profile' or '--profile-type' are passed, "
                           \o "both are required.")
    ELSE IF a.host = None
    THEN ArgumentTypeError("'--host/H is required")
    ELSE None

\* the exception argparse_post raises on the namespace a (None if none); an
\* attribute the namespace lacks is None, as vars(args).get() gives it
argparse_post(a) ==
    IF Cardinality({k \in {"profile_name", "profile_type"} : a[k] = None}) = 1
    THEN ArgumentTypeError("If either '--profile' or '--profile-type' are passed, "
                           \o "both are required.")
    ELSE IF ~Truthy(a.host)
    THEN ArgumentTypeError("'--host/H is required")
    ELSE None

\* the nine tasks every workflow has
\* mutant: the certificate's install task comes before its upload task
CoreTasks_install_before_upload(self) ==
    << NamedTask("Install cert", "install_cert",
                 ComponentKw(self.certificate_bundle.fullchain)),
       NamedTask("Put cert file to remote", "put_bigip_file",
                 ComponentKw(self.certificate_bundle.fullchain)),
       NamedTask("Verify cert installed", "verify_cert_installed",
                 ComponentKw(self.certificate_bundle.fullchain)),
       NamedTask("Put key file to remote", "put_bigip_file",
                 ComponentKw(self.certificate_bundle.key)),
       NamedTask("Install key", "install_cert",
                 ComponentKw(self.certificate_bundle.key)),
       NamedTask("Verify key installed", "verify_cert_installed",
                 ComponentKw(self.certificate_bundle.key)),
       NamedTask("Zero out cert file on remote", "zero_bigip_file",
                 ComponentKw(self.certificate_bundle.fullchain)),
       NamedTask("Zero out key file on remote", "zero_bigip_file",
                 ComponentKw(self.certificate_bundle.key)),
       NamedTask("Save running config to disk", "save", None) >>

CoreTasks(self) ==
    << NamedTask("Put cert file to remote", "put_bigip_file",
                 ComponentKw(self.certificate_bundle.fullchain)),
       NamedTask("Install cert", "install_cert",
                 ComponentKw(self.certificate_bundle.fullchain)),
       NamedTask("Verify cert installed", "verify_cert_installed",
                 ComponentKw(self.certificate_bundle.fullchain)),
       NamedTask("Put key file to remote", "put_bigip_file",
                 ComponentKw(self.certificate_bundle.key)),
       NamedTask("Install key", "install_cert",
                 ComponentKw(self.certificate_bundle.key)),
       NamedTask("Verify key installed", "verify_cert_installed",
                 ComponentKw(self.certificate_bundle.key)),
       NamedTask("Zero out cert file on remote", "zero_bigip_file",
                 ComponentKw(self.certificate_bundle.fullchain)),
       NamedTask("Zero out key file on remote", "zero_bigip_file",
                 ComponentKw(self.certificate_bundle.key)),
       NamedTask("Save running config to disk", "save", None) >>

VerifySyncTask == NamedTask("Verify Sync", "verify_sync", None)

ProfileTask(self) ==
    NamedTask("Create/modify profile", "manage_profile",
              ComponentKw(self.certificate_bundle.fullchain))

SyncTask == NamedTask("Sync", "sync", None)

\* mutant: the profile task is appended after the sync task
get_workflow_profile_after_sync(self) ==
    (IF self.sync_group # None THEN <<VerifySyncTask>> ELSE <<>>)
    \o CoreTasks(self)
    \o (IF self.sync_group # None THEN <<SyncTask>> ELSE <<>>)
    \o (IF self.profile # None THEN <<ProfileTask(self)>> ELSE <<>>)

\* mutant: the sync check is made after the installation, beside the sync
get_workflow_sync_check_late(self) ==
    CoreTasks(self)
    \o (IF self.profile # None THEN <<ProfileTask(self)>> ELSE <<>>)
    \o (IF self.sync_group # None THEN <<VerifySyncTask, SyncTask>> ELSE <<>>)

get_workflow(self) ==
    (IF self.sync_group # None THEN <<VerifySyncTask>> ELSE <<>>)
    \o CoreTasks(self)
    \o (IF self.profile # None THEN <<ProfileTask(self)>> ELSE <<>>)
    \o (IF self.sync_group # None THEN <<SyncTask>> ELSE <<>>)

(***************************************************************************)
(* The appliance's answers                                                 *)
(***************************************************************************)
\* conn.run(cmd): the command's exit status and standard output; with a
\* non-zero status conn.run raises UnexpectedExit
\* what conn.run raises when the connection fails under the command: the
\* command has no exit status
SSHException == Some([type |-> "SSHException", msg |-> "connection lost"])

Resps(outputs) ==
    {[rc |-> 0, stdout |-> o] : o \in outputs} \cup {[rc |-> 1, stdout |-> <<>>]}
    \cup (IF channel = "faulty"
          THEN {[rc |-> -1, stdout |-> <<>>, raises |-> SSHException]}
          ELSE {})

\* outputs of 'show /cm sync-status'
SyncOutputs ==
    { <<"S", "t", "a", "t", "u", "s", ":", " ", "I", "n", " ", "S", "y", "n", "c">>,
      <<"S", "t", "a", "t", "u", "s", ":", " ", "B", "a", "d", " ", "a", "n", "d",
        " ", "n", "o", "t", " ", "g", "o", "o", "d">>,
      <<"s", "t", "a", "t", "u", "s", ":", " ", "I", "N", " ", "S", "Y", "N", "C">>,
      <<"I", "n", " ", "S", "y", "n", "c", " ", "S", "t", "a", "t", "u", "s">>,
      <<"x", "\n", "S", "t", "a", "t", "u", "s", " ", "I", "n", " ", "S", "y", "n",
        "c", "\n", "y">>,
      <<"S", "t", "a", "t", "u", "s", "\n", "I", "n", " ", "S", "y", "n", "c">>,
      <<"S", "t", "a", "t", "u", "s", ":", " ", "I", "n", " ", "S", "y", "n", "c",
        " ", "n", "o", "w">>,
      <<" ", "S", "t", "a", "t", "u", "s", ":", " ", "I", "n", " ", "S", "y", "n", "c">>,
      <<"S", "t", "a", "t", "u", "s", ":", " ", "I", "n", " ", "S", "y", "n", "c", "\n">>,
      <<"S", "t", "a", "t", "u", "s", "I", "n", " ", "S", "y", "n", "c">>,
      <<"I", "n", " ", "S", "y", "n", "c">>,
      <<>> }

\* the digest of some other certificate than the deployed ones
OtherDigest == [i \in 1..DigestBytes |-> (200 + i) % 256]

\* outputs of 'list /sys crypto <type> <name>'
ListOutputs(self) ==
    LET fp == self.certificate_bundle.fingerprint
    IN  { fp,
          <<"f", "i", "n", "g", "e", "r", "p", "r", "i", "n", "t", " ">> \o fp \o <<"\n">>,
          SubSeq(fp, 1, Len(fp) - 1),
          LowerAll(fp),
          _fingerprint(OtherDigest),
          <<"n", "o", " ", "f", "i", "n", "g", "e", "r", "p", "r", "i", "n", "t", "s",
            " ", "t", "o", " ", "b", "e", " ", "f", "o", "u", "n", "d", " ", "h", "e",
            "r", "e">>,
          <<>> }

\* commands whose output the code does not read
NoOutput == {<<>>}

\* names tempfile.NamedTemporaryFile may give the empty file
TempNames == {"/tmp/tmpa1b2c3", "/tmp/tmpd4e5f6"}

\* whether the local file at path is empty: the temporary file is, a file of
\* the certificate bundle is not
LocalFileEmpty(path) == path \in TempNames

(***************************************************************************)
(* What a method call did: the requests made of the connection, in order,  *)
(* and the exception it raised (None if it returned)                       *)
(***************************************************************************)
\* (scp: the arguments of the _scp call the method made, None if it made none)
Eff(io, exc, scp) == [io |-> io, exc |-> exc, scp |-> scp]

RunRec(cmd, resp) == [op |-> "run", cmd |-> cmd, rc |-> resp.rc]

\* (a backquote of the source's messages is written ' here)
RuntimeError(msg) == Some([type |-> "RuntimeError", msg |-> msg])

\* what scp_client.put raises when the transfer fails
SCPException == Some([type |-> "SCPException", msg |-> "scp failed"])

\* posixpath.join(a, b)
PosixJoin(a, b) ==
    IF b # <<>> /\ Head(b) = "/" THEN b
    ELSE IF a = <<>> \/ a[Len(a)] = "/" THEN a \o b
    ELSE a \o <<"/">> \o b

\* mutant: the search without re.I
ReSearchStatusInSync_case_sensitive(stdout) ==
    LET n == Len(stdout)
        MatchAt(p, word) ==
            /\ p + Len(word) - 1 <= n
            /\ SubSeq(stdout, p, p + Len(word) - 1) = word
        status == <<"S", "t", "a", "t", "u", "s">>
        insync == <<"I", "n", " ", "S", "y", "n", "c">>
    IN  \E p \in 1..n, q \in 1..n :
            /\ p = 1 \/ stdout[p - 1] = "\n"
            /\ MatchAt(p, status)
            /\ q >= p + Len(status)
            /\ \A k \in (p + Len(status))..(q - 1) : stdout[k] # "\n"
            /\ MatchAt(q, insync)
            /\ q + Len(insync) - 1 = n \/ stdout[q + Len(insync)] = "\n"

\* re.search("^Status.*In Sync$", stdout, re.I | re.MULTILINE): ^ at the
\* start and after each newline, $ at the end and before each newline, '.'
\* any character but a newline
ReSearchStatusInSync(stdout) ==
    LET n == Len(stdout)
        MatchAt(p, word) ==
            /\ p + Len(word) - 1 <= n
            /\ LowerAll(SubSeq(stdout, p, p + Len(word) - 1)) = word
        status == <<"s", "t", "a", "t", "u", "s">>
        insync == <<"i", "n", " ", "s", "y", "n", "c">>
    IN  \E p \in 1..n, q \in 1..n :
            /\ p = 1 \/ stdout[p - 1] = "\n"
            /\ MatchAt(p, status)
            /\ q >= p + Len(status)
            /\ \A k \in (p + Len(status))..(q - 1) : stdout[k] # "\n"
            /\ MatchAt(q, insync)
            /\ q + Len(insync) - 1 = n \/ stdout[q + Len(insync)] = "\n"

(***************************************************************************)
(* BigipDeployer: the step methods                                         *)
(***************************************************************************)
\* conn.run raised something that is not UnexpectedExit
Lost(resp) == "raises" \in DOMAIN resp

\* mutant: UnexpectedExit is not caught and reaches the caller as it is
Try_lets_exit_through(resp, handler, otherwise) ==
    IF Lost(resp) THEN resp.raises
    ELSE IF resp.rc # 0
    THEN Some([type |-> "UnexpectedExit", msg |-> "Encountered a bad command exit code!"])
    ELSE otherwise

\* mutant: the except clause catches every exception
Try_catches_everything(resp, handler, otherwise) ==
    IF Lost(resp) \/ resp.rc # 0 THEN handler ELSE otherwise

\* try: conn.run(...) and what follows it in the try block
\* except UnexpectedExit as err: raise RuntimeError(...) from err
\* -- the exception the block ends with: UnexpectedExit alone is caught and
\* replaced, anything else conn.run raises leaves the method as it is
Try(resp, handler, otherwise) ==
    IF Lost(resp) THEN resp.raises
    ELSE IF resp.rc # 0 THEN handler
    ELSE otherwise

verify_sync(self, resp) ==
    Eff(<<RunRec("show /cm sync-status", resp)>>,
        Try(resp,
            RuntimeError("Failed checking sync status. Aborting all further operations."),
            IF ~ReSearchStatusInSync(resp.stdout)
            THEN RuntimeError("BIG-IP configuration out of sync. Cannot continue. All "
                              \o "further operations aborted.")
            ELSE None),
        None)

\* mutant: the connection is opened whether or not it is open
ScpOpens_always(conn_transport) == TRUE

\* whether _scp calls self.conn.open()
ScpOpens(conn_transport) == ~conn_transport

_scp(self, conn_transport, localpath, remotepath, put_ok) ==
    Eff((IF ScpOpens(conn_transport) THEN <<[op |-> "open"]>> ELSE <<>>)
        \o <<[op |-> "SCPClient"],
             [op |-> "put", local |-> localpath, remote |-> remotepath,
              empty |-> LocalFileEmpty(localpath), ok |-> put_ok]>>
        \o (IF put_ok THEN <<[op |-> "close"]>> ELSE <<>>),
        IF put_ok THEN None ELSE SCPException,
        Some([localpath |-> localpath, remotepath |-> remotepath]))

\* mutant: the file is put under its bare filename, not in dest_temp_dir
put_bigip_file_bare_filename(self, conn_transport, component, put_ok) ==
    _scp(self, conn_transport, component.path, Str(component.filename), put_ok)

put_bigip_file(self, conn_transport, component, put_ok) ==
    _scp(self, conn_transport, component.path,
         Str(PosixJoin(self.dest_temp_dir, component.filename)), put_ok)

\* mutant: only the leaf certificate is of type cert
BigipCertType_leaf_only(label) == IF label = "cert" THEN "cert" ELSE "key"

\* the object type of a component on the BIG-IP
BigipCertType(label) == IF label \in {"cert", "fullchain"} THEN "cert" ELSE "key"

install_cert(self, component, resp) ==
    LET remote_filepath == Str(PosixJoin(self.dest_temp_dir, component.filename))
        bigip_cert_type == BigipCertType(component.label)
        cmd == "install /sys crypto " \o bigip_cert_type \o " "
               \o self.certificate_bundle.name \o " from-local-file " \o remote_filepath
    IN  Eff(<<RunRec(cmd, resp)>>,
            Try(resp,
                RuntimeError("Failed installing " \o component.label \o " '"
                             \o self.certificate_bundle.name \o "' on remote"),
                None),
            None)

\* mutant: the fingerprint is looked for whatever the type
FingerprintMissing_any_type(bigip_cert_type, fingerprint, stdout) ==
    ~Contains(stdout, fingerprint)

\* verify_cert_installed's test of the listing
FingerprintMissing(bigip_cert_type, fingerprint, stdout) ==
    /\ bigip_cert_type = "cert"
    /\ ~Contains(stdout, fingerprint)

\* mutant: the mismatch raised inside the try block is caught there and
\* reported as the failure of the listing
verify_cert_installed_mismatch_caught(self, component, resp) ==
    LET bigip_cert_type == BigipCertType(component.label)
        cmd == "list /sys crypto " \o bigip_cert_type \o " "
               \o self.certificate_bundle.name
        failed == RuntimeError("Failed verifying " \o bigip_cert_type \o " '"
                               \o self.certificate_bundle.name \o "' present on remote")
    IN  Eff(<<RunRec(cmd, resp)>>,
            Try(resp, failed,
                IF FingerprintMissing(bigip_cert_type,
                                      self.certificate_bundle.fingerprint, resp.stdout)
                THEN failed
                ELSE None),
            None)

verify_cert_installed(self, component, resp) ==
    LET bigip_cert_type == BigipCertType(component.label)
        cmd == "list /sys crypto " \o bigip_cert_type \o " "
               \o self.certificate_bundle.name
    IN  Eff(<<RunRec(cmd, resp)>>,
            Try(resp,
                RuntimeError("Failed verifying " \o bigip_cert_type \o " '"
                             \o self.certificate_bundle.name \o "' present on remote"),
                IF FingerprintMissing(bigip_cert_type,
                                      self.certificate_bundle.fingerprint, resp.stdout)
                THEN RuntimeError("Failed to match certificate fingerprint in '"
                                  \o self.certificate_bundle.name \o "' on remote")
                ELSE None),
            None)

\* mutant: the component's own file is put again, not the empty file
zero_bigip_file_puts_component(self, conn_transport, component, emptyfile, put_ok) ==
    _scp(self, conn_transport, component.path,
         Str(PosixJoin(self.dest_temp_dir, component.filename)), put_ok)

zero_bigip_file(self, conn_transport, component, emptyfile, put_ok) ==
    _scp(self, conn_transport, emptyfile,
         Str(PosixJoin(self.dest_temp_dir, component.filename)), put_ok)

\* mutant: the profile is taken to exist whatever the listing's exit status
ListingFailed_never(resp_list) == FALSE

\* conn.run of the listing raised UnexpectedExit: the profile was not found
ListingFailed(resp_list) == resp_list.rc # 0

\* mutant: the profile is looked at only after the listing was attempted
manage_profile_lists_first(self, resp_list, resp_second) ==
    IF self.profile = None
    THEN Eff(<<RunRec("list /ltm profile None None", resp_list)>>,
             RuntimeError("This method cannot modify or create a remote "
                          \o "profile unless its details are provided"),
             None)
    ELSE Eff(<<>>, None, None)

manage_profile(self, resp_list, resp_second) ==
    IF self.profile = None
    THEN Eff(<<>>,
             RuntimeError("This method cannot modify or create a remote "
                          \o "profile unless its details are provided"),
             None)
    ELSE
    LET profile == self.profile.val
        bindings == "/ltm profile " \o profile.type \o " " \o profile.name
                    \o " cert " \o self.certificate_bundle.name
                    \o " key " \o self.certificate_bundle.name
        list == RunRec("list /ltm profile " \o profile.type \o " " \o profile.name,
                       resp_list)
    IN  IF Lost(resp_list)
        THEN Eff(<<list>>, resp_list.raises, None)
        ELSE IF ListingFailed(resp_list)
        THEN Eff(<<list, RunRec("create " \o bindings, resp_second)>>,
                 Try(resp_second,
                     RuntimeError("Failed to create profile '" \o profile.name
                                  \o "' on remote"),
                     None),
                 None)
        ELSE Eff(<<list, RunRec("modify " \o bindings, resp_second)>>,
                 Try(resp_second,
                     RuntimeError("Unexpected failure when trying to update the "
                                  \o "profile '" \o profile.name
                                  \o "' to use the new cert"),
                     None),
                 None)

save(self, resp) ==
    Eff(<<RunRec("save /sys config", resp)>>,
        Try(resp, RuntimeError("Failed to save running config to disk"), None),
        None)

\* mutant: the command names the host, not the sync group
sync_names_host(self, resp) ==
    Eff(<<RunRec("run /cm config-sync to-group " \o self.host, resp)>>,
        IF resp.rc # 0
        THEN RuntimeError("Failed to sync to device group '"
                          \o PyStr(self.sync_group) \o "'")
        ELSE None,
        None)

sync(self, resp) ==
    Eff(<<RunRec("run /cm config-sync to-group " \o PyStr(self.sync_group), resp)>>,
        Try(resp,
            RuntimeError("Failed to sync to device group '"
                         \o PyStr(self.sync_group) \o "'"),
            None),
        None)

(***************************************************************************)
(* The secure-copy negotiator scp(host, localfile, remotefile)             *)
(***************************************************************************)
\* exit statuses of the external scp utility
ScpExits == {0, 1, 255}

\* one invocation of the external utility, as the joined command line
SubprocessRun(argv, rc) == [op |-> "subprocess", cmd |-> argv, rc |-> rc]

ScpWithFlag(host, localfile, remotefile) ==
    "scp -O " \o localfile \o " " \o host \o ":" \o remotefile

ScpWithoutFlag(host, localfile, remotefile) ==
    "scp " \o localfile \o " " \o host \o ":" \o remotefile

\* the fatal error of the fallback attempt, with the utility's exit code
TransferFailed(rc) ==
    Some([type |-> "RuntimeError", msg |-> "transfer failed", returncode |-> rc])

\* mutant: the attempt without the flag is made first, the one with it second
scp_flagless_first(host, localfile, remotefile, rc_flag, rc_plain) ==
    Eff(<<SubprocessRun(ScpWithoutFlag(host, localfile, remotefile), rc_plain)>>
        \o (IF rc_plain # 0
            THEN <<SubprocessRun(ScpWithFlag(host, localfile, remotefile), rc_flag)>>
            ELSE <<>>),
        IF rc_plain # 0 /\ rc_flag # 0 THEN TransferFailed(rc_flag) ELSE None,
        None)

\* mutant: the failure of the attempt with the flag is raised, no fallback
scp_no_fallback(host, localfile, remotefile, rc_flag, rc_plain) ==
    Eff(<<SubprocessRun(ScpWithFlag(host, localfile, remotefile), rc_flag)>>,
        IF rc_flag # 0 THEN TransferFailed(rc_flag) ELSE None,
        None)

\* rc_flag, rc_plain: the exit statuses the utility gives with and without -O
scp(host, localfile, remotefile, rc_flag, rc_plain) ==
    Eff(<<SubprocessRun(ScpWithFlag(host, localfile, remotefile), rc_flag)>>
        \o (IF rc_flag # 0
            THEN <<SubprocessRun(ScpWithoutFlag(host, localfile, remotefile), rc_plain)>>
            ELSE <<>>),
        IF rc_flag # 0 /\ rc_plain # 0 THEN TransferFailed(rc_plain) ELSE None,
        None)

(***************************************************************************)
(* BigipDeployer.entrypoint                                                *)
(***************************************************************************)
\* the certificate the framework parses from a lineage directory
CertAt(lineage) ==
    IF lineage = "/etc/letsencrypt/live/host.domain.tld"
    THEN [ common_name |-> <<"h", "o", "s", "t", ".", "d", "o", "m", "a", "i", "n",
                             ".", "t", "l", "d">>,
           expires     |-> "2027-02-01T12:00:00",
           digest      |-> [i \in 1..DigestBytes |-> (i * 37) % 256] ]
    ELSE [ common_name |-> <<"*", ".", "d", "o", "m", "a", "i", "n", ".", "t", "l", "d">>,
           expires     |-> "2027-03-01T00:00:00+00:00",
           digest      |-> [i \in 1..DigestBytes |-> (i * 11 + 5) % 256] ]

\* the deployer entrypoint builds from the arguments
\* mutant: the profile is built as soon as a profile name is given
entrypoint_deployer_name_suffices(a) ==
    BigipDeployer(
        a.host,
        a.dest_temp_dir,
        BigipCertificateBundle(a.renewed_lineage, a.cert_name, CertAt(a.renewed_lineage)),
        a.sync_group,
        IF a.profile_name # None
        THEN CertProfile(a.profile_name.val, PyStr(a.profile_type))
        ELSE None)

entrypoint_deployer(a) ==
    BigipDeployer(
        a.host,
        a.dest_temp_dir,
        BigipCertificateBundle(a.renewed_lineage, a.cert_name, CertAt(a.renewed_lineage)),
        a.sync_group,
        IF a.profile_name # None /\ a.profile_type # None
        THEN CertProfile(a.profile_name.val, a.profile_type.val)
        ELSE None)

\* mutant: the dry_run argument is ignored
DryRun_ignored(a) == FALSE

\* the branch entrypoint takes on its dry_run argument
DryRun(a) == a.dry_run

DryRunBanner == "# Running in dry run mode. Will not run actual deployment tasks."

DryRunLine(task) == "Would run task: " \o PyStr(task.name)

\* mutant: the loop catches the exception and goes on with the next task
LoopAfter_goes_on(exc, i, n) ==
    [state |-> IF i = n THEN "Succeeded" ELSE "Running", idx |-> i + 1,
     raised |-> None]

\* mutant: the loop leaves out the last task
LoopAfter_stops_early(exc, i, n) ==
    IF exc # None
    THEN [state |-> "Failed", idx |-> i, raised |-> exc]
    ELSE [state |-> IF i >= n - 1 THEN "Succeeded" ELSE "Running", idx |-> i + 1,
          raised |-> None]

\* the for loop after task i of n: an exception of task.execute() leaves
\* entrypoint and reaches its caller
LoopAfter(exc, i, n) ==
    IF exc # None
    THEN [state |-> "Failed", idx |-> i, raised |-> exc]
    ELSE [state |-> IF i = n THEN "Succeeded" ELSE "Running", idx |-> i + 1,
          raised |-> None]

\* mutant: when a task raises, the loop reverts the executed tasks, last first
RevertCalls_rollback(exc, done) ==
    IF exc # None
    THEN [i \in 1..Len(done) |-> [fn |-> "revert", task |-> done[Len(done) + 1 - i]]]
    ELSE <<>>

\* the task.revert() calls the loop makes after a task.execute() that ended
\* with exc, the tasks at positions done having been executed: the loop's
\* body has no other call than task.execute()
RevertCalls(exc, done) == <<>>

(***************************************************************************)
(* The state machine                                                       *)
(***************************************************************************)
ArgsSet ==
    [ host            : {"bigip.domain.tld"},
      dest_temp_dir   : { <<"/", "v", "a", "r", "/", "t", "m", "p">>,
                          <<"/", "r", "e", "m", "o", "t", "e", "/", "p", "a", "t", "h", "/">> },
      cert_name       : {None, Some("mycert")},
      profile_name    : {None, Some("test_profile")},
      profile_type    : {None, Some("client-ssl")},
      sync_group      : {None, Some("test_sync_group")},
      dry_run         : BOOLEAN,
      renewed_lineage : { "/etc/letsencrypt/live/host.domain.tld",
                          "/etc/letsencrypt/live/wild.domain.tld" } ]

NoCall ==
    [ fn |-> "none", kwargs |-> <<>>, resps |-> <<>>, first |-> 0,
      open_before |-> FALSE, scp |-> None, exc |-> None ]

Start ==
    /\ \/ /\ mode = "entrypoint"
          /\ args \in ArgsSet
          /\ state = "Args"
          /\ deployer = None
       \/ /\ mode = "api"
          /\ args = None
          /\ state = "Api"
          /\ deployer \in {entrypoint_deployer(a) : a \in ArgsSet}
    /\ workflow = <<>>
    /\ idx = 1
    /\ executed = <<>>
    /\ remote = <<>>
    /\ transport = FALSE
    /\ console = <<>>
    /\ raised = None
    /\ call = NoCall

\* the connection fails only by a command's exit status or a failed transfer
Init == Start /\ channel = "sound"

\* entrypoint up to its loop: the deployer, its workflow, the dry-run banner
EntrypointSetup ==
    /\ mode = "entrypoint" /\ state = "Args"
    /\ deployer' = entrypoint_deployer(args)
    /\ workflow' = get_workflow(entrypoint_deployer(args))
    /\ console' = IF DryRun(args) THEN Append(console, DryRunBanner) ELSE console
    /\ state' = "Built"
    /\ UNCHANGED <<mode, channel, args, idx, executed, remote, transport, raised, call>>

Looping == mode = "entrypoint" /\ state \in {"Built", "Running"} /\ idx <= Len(workflow)

\* an iteration of the loop in dry-run mode
DryRunStep ==
    /\ Looping /\ DryRun(args)
    /\ console' = Append(console, DryRunLine(workflow[idx]))
    /\ idx' = idx + 1
    /\ state' = IF idx = Len(workflow) THEN "Succeeded" ELSE "Running"
    /\ UNCHANGED <<mode, channel, args, deployer, workflow, executed, remote, transport,
                   raised, call>>

\* the keyword arguments with which method fn is called now: by the loop's
\* task.execute(), or by a direct caller with any of `choices`
Invocations(fn, choices) ==
    IF mode = "entrypoint"
    THEN IF Looping /\ ~DryRun(args) /\ execute(workflow[idx], <<>>, <<>>).fn = fn
         THEN {execute(workflow[idx], <<>>, <<>>).kwargs}
         ELSE {}
    ELSE IF state = "Api" THEN choices ELSE {}

NoKw == {<<>>}

AnyComponentKw ==
    {[component |-> c] : c \in Components(deployer.certificate_bundle)}

\* conn.transport after the requests io: running a command opens the
\* connection if it is not open, as conn.open() does
\* mutant: closing the SCP client closes the connection's transport too
TransportAfter_closed_with_client(t, io) ==
    /\ t \/ \E i \in DOMAIN io : io[i].op \in {"run", "open"}
    /\ \A i \in DOMAIN io : io[i].op # "close"

TransportAfter(t, io) == t \/ \E i \in DOMAIN io : io[i].op \in {"run", "open"}

\* the called method has done eff: the caller goes on
Returned(fn, kw, resps, eff) ==
    /\ call' = [ fn |-> fn, kwargs |-> kw, resps |-> resps,
                 first |-> Len(remote),
                 open_before |-> transport, scp |-> eff.scp, exc |-> eff.exc,
                 reverted |-> IF mode = "entrypoint"
                              THEN RevertCalls(eff.exc, Append(executed, idx))
                              ELSE <<>> ]
    /\ remote' = remote \o eff.io
    /\ transport' = TransportAfter(transport, eff.io)
    /\ IF mode = "entrypoint"
       THEN LET after == LoopAfter(eff.exc, idx, Len(workflow))
            IN  /\ executed' = Append(executed, idx)
                /\ state' = after.state
                /\ idx' = after.idx
                /\ raised' = after.raised
       ELSE /\ raised' = eff.exc
            /\ state' = "ApiReturned"
            /\ UNCHANGED <<executed, idx>>
    /\ UNCHANGED <<mode, channel, args, deployer, workflow, console>>

RunVerifySync ==
    \E kw \in Invocations("verify_sync", NoKw), resp \in Resps(SyncOutputs) :
        Returned("verify_sync", kw, <<resp>>, verify_sync(deployer, resp))

RunPutBigipFile ==
    \E kw \in Invocations("put_bigip_file", AnyComponentKw), put_ok \in BOOLEAN :
        Returned("put_bigip_file", kw, <<>>,
                 put_bigip_file(deployer, transport, kw.component, put_ok))

RunInstallCert ==
    \E kw \in Invocations("install_cert", AnyComponentKw), resp \in Resps(NoOutput) :
        Returned("install_cert", kw, <<resp>>,
                 install_cert(deployer, kw.component, resp))

RunVerifyCertInstalled ==
    \E kw \in Invocations("verify_cert_installed", AnyComponentKw) :
    \E resp \in Resps(ListOutputs(deployer)) :
        Returned("verify_cert_installed", kw, <<resp>>,
                 verify_cert_installed(deployer, kw.component, resp))

RunZeroBigipFile ==
    \E kw \in Invocations("zero_bigip_file", AnyComponentKw),
       emptyfile \in TempNames, put_ok \in BOOLEAN :
        Returned("zero_bigip_file", kw, <<>>,
                 zero_bigip_file(deployer, transport, kw.component, emptyfile, put_ok))

RunSave ==
    \E kw \in Invocations("save", NoKw), resp \in Resps(NoOutput) :
        Returned("save", kw, <<resp>>, save(deployer, resp))

RunManageProfile ==
    \E kw \in Invocations("manage_profile", NoKw),
       resp_list \in Resps(NoOutput), resp_second \in Resps(NoOutput) :
        Returned("manage_profile", kw, <<resp_list, resp_second>>,
                 manage_profile(deployer, resp_list, resp_second))

RunSync ==
    \E kw \in Invocations("sync", NoKw), resp \in Resps(NoOutput) :
        Returned("sync", kw, <<resp>>, sync(deployer, resp))

\* a direct call of the transfer method
RunScp ==
    /\ mode = "api" /\ state = "Api"
    /\ \E put_ok \in BOOLEAN :
        Returned("_scp", <<>>, <<>>,
                 _scp(deployer, transport, "LOCALFILE", "REMOTEFILE", put_ok))

\* a direct call of the negotiator
RunModuleScp ==
    /\ mode = "api" /\ state = "Api"
    /\ \E rc_flag \in ScpExits, rc_plain \in ScpExits :
        Returned("scp",
                 [host |-> "something.domain.tld", localfile |-> "LOCALFILE",
                  remotefile |-> "REMOTEFILE"],
                 <<[rc |-> rc_flag], [rc |-> rc_plain]>>,
                 scp("something.domain.tld", "LOCALFILE", "REMOTEFILE",
                     rc_flag, rc_plain))

\* tasks a direct caller constructs
\* the constructor arguments of those tasks: exec_function, name, exec_args,
\* exec_kwargs, revert_function, revert_args, revert_kwargs (None: omitted)
SampleTaskArgs ==
    { <<f, n, None, ek, None, None, None>> :
        f \in {"some_callable", "other_callable"},
        n \in {None, Some("Some task")},
        ek \in {None, PyDict(<<>>),
                PyDict([arg1 |-> "arg1_value", arg2 |-> "arg2_value"])} }
    \cup { <<"some_callable", None, ea, None, None, None, None>> :
             ea \in {PyList(<<>>), PyList(<<"x">>)} }
    \cup { <<"some_callable", None, None, None, rf, ra, rk>> :
             rf \in {None, Some("some_revert")},
             ra \in {None, PyList(<<>>), PyList(<<"r">>)},
             rk \in {None, PyDict(<<>>), PyDict([k |-> "v"])} }

\* BigipTask(exec_function=..., name=..., ...) on a tuple of arguments
Construct(t) == BigipTask(t[1], t[2], t[3], t[4], t[5], t[6], t[7])

SampleTasks == {Construct(t) : t \in SampleTaskArgs}

\* the tasks of the unit tests' expected workflows: unnamed, with the
\* deployer's methods and components
ExpectedTasks(self) ==
    { BigipTask(f, None, None, ek, None, None, None) :
        f \in {"verify_sync", "put_bigip_file", "install_cert", "save"},
        ek \in {None, ComponentKw(self.certificate_bundle.fullchain),
                ComponentKw(self.certificate_bundle.key)} }

\* the outcome of a call on a task
TaskCall(fn, inputs, ret) ==
    /\ call' = [ fn |-> fn, kwargs |-> inputs, resps |-> <<>>, first |-> Len(remote),
                 open_before |-> transport, scp |-> None, exc |-> None, ret |-> ret ]
    /\ state' = "ApiReturned"
    /\ UNCHANGED <<mode, channel, args, deployer, workflow, idx, executed, remote, transport,
                   console, raised>>

\* task == othertask, on tasks the caller built and on those of a workflow
RunTaskEq ==
    /\ mode = "api" /\ state = "Api"
    /\ \/ \E self \in SampleTasks, othertask \in SampleTasks :
          TaskCall("__eq__", [self |-> self, othertask |-> othertask],
                   __eq__(self, othertask))
       \/ \E i \in DOMAIN get_workflow(deployer), othertask \in ExpectedTasks(deployer) :
            TaskCall("__eq__", [self |-> get_workflow(deployer)[i], othertask |-> othertask],
                     __eq__(get_workflow(deployer)[i], othertask))

CallArgs == {<<>>, <<"p">>}

CallKwargs == {<<>>, [arg1 |-> "call_value"], [k |-> "call_value"]}

\* task.execute(*posargs, **kwargs): the calls of the exec function it makes
RunTaskExecute ==
    /\ mode = "api" /\ state = "Api"
    /\ \E task \in SampleTasks, posargs \in CallArgs, kwargs \in CallKwargs :
        TaskCall("execute", [task |-> task, posargs |-> posargs, kwargs |-> kwargs],
                 <<execute(task, posargs, kwargs)>>)

\* task.revert(*posargs, **kwargs): the calls of the revert function it makes
RunTaskRevert ==
    /\ mode = "api" /\ state = "Api"
    /\ \E task \in SampleTasks, posargs \in CallArgs, kwargs \in CallKwargs :
        TaskCall("revert", [task |-> task, posargs |-> posargs, kwargs |-> kwargs],
                 revert(task, posargs, kwargs))

\* namespaces argparse_post is given
PostArgsSet ==
    [ host         : {None, Some(""), Some("val")},
      profile_name : {None, Some(""), Some("val")},
      profile_type : {None, Some("val")} ]

\* a call of the static argparse_post
RunArgparsePost ==
    /\ mode = "api" /\ state = "Api"
    /\ \E a \in PostArgsSet :
        Returned("argparse_post", [args |-> a], <<>>, Eff(<<>>, argparse_post(a), None))

\* the class attribute the framework knows the deployer by
subcommand == "bigip"

\* the call main makes into the framework
framework_main(deployers, argv) ==
    [fn |-> "framework_main", deployers |-> deployers, argv |-> argv]

\* mutant: the subcommand goes to the end of the argument vector
main_appends_subcommand(argv) ==
    [ calls |-> <<framework_main(<<"BigipDeployer">>, argv \o <<subcommand>>)>>,
      argv |-> argv, files |-> <<>> ]

\* main(argv) of the _main module: the framework calls it makes, the
\* caller's list after it (new_argv is a new list, the caller's is left
\* alone) and the files it writes
main(argv) ==
    LET new_argv == <<subcommand>> \o argv
    IN  [ calls |-> <<framework_main(<<"BigipDeployer">>, new_argv)>>,
          argv |-> argv, files |-> <<>> ]

\* str(argv) of a list of strings
RECURSIVE ReprItems(_)
ReprItems(argv) ==
    IF argv = <<>> THEN ""
    ELSE "'" \o Head(argv) \o "'"
         \o (IF Len(argv) > 1 THEN ", " ELSE "") \o ReprItems(Tail(argv))

PyReprList(argv) == "[" \o ReprItems(argv) \o "]"

\* main(argv) of the package's __main__ module: it writes str(argv) to a
\* file before it calls the framework
__main__main(argv) ==
    LET new_argv == <<subcommand>> \o argv
    IN  [ calls |-> <<framework_main(<<"BigipDeployer">>, new_argv)>>,
          argv |-> argv,
          files |-> <<[path |-> "/tmp/delme.txt", mode |-> "w",
                       content |-> PyReprList(argv)]>> ]

\* the argument lists a caller of main passes
ArgvSet ==
    { <<>>, <<"-h">>, <<"--host", "bigip.domain.tld">>, <<"bigip", "-h">>,
      <<"--dry-run", "--host", "bigip.domain.tld">> }

\* a call of the console script's main
RunMain ==
    /\ mode = "api" /\ state = "Api"
    /\ \E argv \in ArgvSet : TaskCall("main", [argv |-> argv], main(argv))

\* mutant: get_workflow queries the sync status while it builds the list
RunGetWorkflow_queries_status ==
    /\ mode = "api" /\ state = "Api"
    /\ workflow' = get_workflow(deployer)
    /\ call' = [NoCall EXCEPT !.fn = "get_workflow", !.open_before = transport]
    /\ state' = "ApiReturned"
    /\ remote' = Append(remote, [op |-> "run", cmd |-> "show /cm sync-status", rc |-> 0])
    /\ transport' = TRUE
    /\ UNCHANGED <<mode, channel, args, deployer, idx, executed, console, raised>>

\* a call of main of the __main__ module (python -m certbot_deployer_bigip)
RunPackageMain ==
    /\ mode = "api" /\ state = "Api"
    /\ \E argv \in ArgvSet :
          TaskCall("__main__.main", [argv |-> argv], __main__main(argv))

\* a direct call of get_workflow
RunGetWorkflow ==
    /\ mode = "api" /\ state = "Api"
    /\ workflow' = get_workflow(deployer)
    /\ call' = [NoCall EXCEPT !.fn = "get_workflow", !.open_before = transport]
    /\ state' = "ApiReturned"
    /\ UNCHANGED <<mode, channel, args, deployer, idx, executed, remote, transport,
                   console, raised>>

\* the direct caller has looked at the call's outcome and at what its
\* recorders hold, and starts over with empty recorders; the deployer and
\* its connection stay as they are
ApiForget ==
    /\ mode = "api" /\ state = "ApiReturned"
    /\ state' = "Api"
    /\ call' = NoCall
    /\ remote' = <<>>
    /\ raised' = None
    /\ UNCHANGED <<mode, channel, args, deployer, workflow, idx, executed, transport, console>>

Next ==
    \/ EntrypointSetup
    \/ DryRunStep
    \/ RunVerifySync
    \/ RunPutBigipFile
    \/ RunInstallCert
    \/ RunVerifyCertInstalled
    \/ RunZeroBigipFile
    \/ RunSave
    \/ RunManageProfile
    \/ RunSync
    \/ RunScp
    \/ RunModuleScp
    \/ RunArgparsePost
    \/ RunGetWorkflow
    \/ RunMain
    \/ RunPackageMain
    \/ ApiForget

Spec == Init /\ [][Next]_vars

\* the same callers over a connection that can also be lost under a command
FaultInit == Start /\ channel = "faulty"

FaultSpec == FaultInit /\ [][Next]_vars

\* a run of entrypoint alone: it keeps running until it returns or raises
EntrypointInit == Init /\ mode = "entrypoint"

EntrypointNext ==
    \/ EntrypointSetup
    \/ DryRunStep
    \/ RunVerifySync
    \/ RunPutBigipFile
    \/ RunInstallCert
    \/ RunVerifyCertInstalled
    \/ RunZeroBigipFile
    \/ RunSave
    \/ RunManageProfile
    \/ RunSync

FairSpec == EntrypointInit /\ [][EntrypointNext]_vars /\ WF_vars(EntrypointNext)

\* a caller of the BigipTask class alone: it builds tasks, or takes those of
\* a deployer's workflow, and compares, executes and reverts them
TaskInit ==
    /\ Init /\ mode = "api"
    /\ deployer.dest_temp_dir = <<"/", "v", "a", "r", "/", "t", "m", "p">>
    /\ deployer.certificate_bundle.path = "/etc/letsencrypt/live/host.domain.tld"
    /\ deployer.certificate_bundle.name = "mycert"

TaskNext ==
    \/ RunTaskEq
    \/ RunTaskExecute
    \/ RunTaskRevert
    \/ ApiForget

TaskSpec == TaskInit /\ [][TaskNext]_vars

(***************************************************************************)
(* Properties                                                              *)
(***************************************************************************)
\* the requests the latest method call made of the connection
CallIO == SubSeq(remote, call.first + 1, Len(remote))

\* a non-dry-run run of entrypoint
RealRun == mode = "entrypoint" /\ ~args.dry_run

UpTo(n) == [i \in 1..n |-> i]

IsFatal(exc) == exc # None /\ exc.val.type = "RuntimeError"

\* the step a task stands for: its bound method and, for the per-artifact
\* steps, the label of the artifact bound to it
StepOf(task) ==
    IF task.exec_function \in
         {"put_bigip_file", "install_cert", "verify_cert_installed", "zero_bigip_file"}
    THEN <<task.exec_function, task.exec_kwargs.items.component.label>>
    ELSE <<task.exec_function, "">>

WorkflowBuilt ==
    (mode = "entrypoint" /\ state # "Args") \/ call.fn = "get_workflow"

\* C1: for every combination of sync group and profile, get_workflow returns
\* exactly [verify_sync if sync group], upload/install/verify fullchain,
\* upload/install/verify key, zero fullchain, zero key, save,
\* [manage_profile if profile], [sync if sync group], in this order, so
\* 9 + (1 if profile) + (2 if sync group) tasks and no other task.
C1_WorkflowSequence ==
    WorkflowBuilt =>
        LET hasSync == deployer.sync_group # None
            hasProfile == deployer.profile # None
        IN  /\ [i \in DOMAIN workflow |-> StepOf(workflow[i])] =
                (IF hasSync THEN << <<"verify_sync", "">> >> ELSE <<>>)
                \o << <<"put_bigip_file", "fullchain">>,
                      <<"install_cert", "fullchain">>,
                      <<"verify_cert_installed", "fullchain">>,
                      <<"put_bigip_file", "key">>,
                      <<"install_cert", "key">>,
                      <<"verify_cert_installed", "key">>,
                      <<"zero_bigip_file", "fullchain">>,
                      <<"zero_bigip_file", "key">>,
                      <<"save", "">> >>
                \o (IF hasProfile THEN << <<"manage_profile", "">> >> ELSE <<>>)
                \o (IF hasSync THEN << <<"sync", "">> >> ELSE <<>>)
            /\ Len(workflow) = 9 + (IF hasProfile THEN 1 ELSE 0)
                                 + (IF hasSync THEN 2 ELSE 0)

C1_Witness ==
    /\ WorkflowBuilt
    /\ deployer.sync_group # None /\ deployer.profile # None
    /\ Len(workflow) = 12

\* C2: in a non-dry-run run tasks are executed strictly in workflow order and
\* the first task whose execute() raises ends the run: the tasks before it
\* have each been executed once, it was attempted once, no later task is
\* ever executed, and the error reaches the caller.
C2_Inv ==
    RealRun =>
        /\ executed = UpTo(Len(executed))
        /\ (call.exc # None <=> state = "Failed")
        /\ (raised # None <=> state = "Failed")
        /\ state = "Failed" =>
              /\ raised = call.exc
              /\ executed = UpTo(idx)
              /\ idx <= Len(workflow)
        /\ state \in {"Built", "Running", "Succeeded"} => executed = UpTo(idx - 1)

C2_FirstFailureEndsRun ==
    /\ []C2_Inv
    /\ [][(RealRun /\ state = "Failed") => UNCHANGED vars]_vars

C2_Witness ==
    /\ RealRun /\ state = "Failed"
    /\ Len(workflow) = 12 /\ executed = UpTo(12)
    /\ IsFatal(raised)

\* C3: in dry-run mode entrypoint prints one banner line first and then
\* exactly one line 'Would run task: <name>' per task, in workflow order, and
\* invokes none of the tasks' operations: no command is run, no file is
\* transferred and the transport is never opened.
C3_DryRun ==
    (mode = "entrypoint" /\ args.dry_run /\ state # "Args") =>
        /\ console = <<"# Running in dry run mode. Will not run actual deployment tasks.">>
                     \o [i \in 1..(idx - 1) |->
                            "Would run task: " \o workflow[i].name.val]
        /\ idx <= Len(workflow) + 1
        /\ (state = "Succeeded" <=> idx = Len(workflow) + 1)
        /\ state # "Failed"
        /\ executed = <<>> /\ call = NoCall /\ raised = None
        /\ remote = <<>> /\ ~transport

C3_Witness ==
    /\ mode = "entrypoint" /\ args.dry_run /\ state = "Succeeded"
    /\ Len(workflow) = 12 /\ Len(console) = 13

\* C4: a non-dry-run run over N tasks always terminates, in Succeeded or
\* Failed and in no other state; it ends in Succeeded exactly when every one
\* of the N tasks has been executed exactly once, in order, without raising,
\* and no task is ever executed more than once.
C4_Inv ==
    RealRun =>
        /\ state \in {"Args", "Built", "Running", "Succeeded", "Failed"}
        /\ (state = "Succeeded" <=>
               /\ state # "Args"
               /\ executed = UpTo(Len(workflow))
               /\ raised = None)
        /\ \A i, j \in DOMAIN executed : executed[i] = executed[j] => i = j

C4_Terminates ==
    /\ []C4_Inv
    /\ [][(RealRun /\ state \in {"Succeeded", "Failed"}) => UNCHANGED vars]_vars
    /\ [](RealRun => <>(state \in {"Succeeded", "Failed"}))

C4_Witness ==
    /\ RealRun /\ state = "Succeeded"
    /\ Len(workflow) = 12 /\ executed = UpTo(12) /\ raised = None

RECURSIVE SplitLines(_)
SplitLines(s) ==
    IF \E i \in DOMAIN s : s[i] = "\n"
    THEN LET i == CHOOSE k \in DOMAIN s : s[k] = "\n" /\ \A m \in 1..(k - 1) : s[m] # "\n"
         IN  <<SubSeq(s, 1, i - 1)>> \o SplitLines(SubSeq(s, i + 1, Len(s)))
    ELSE <<s>>

StartsWith(s, word) == Len(s) >= Len(word) /\ SubSeq(s, 1, Len(word)) = word

EndsWith(s, word) ==
    Len(s) >= Len(word) /\ SubSeq(s, Len(s) - Len(word) + 1, Len(s)) = word

\* the output has a line that starts with Status and ends with In Sync,
\* whatever the case of its letters
HasInSyncLine(stdout) ==
    \E i \in DOMAIN SplitLines(stdout) :
        LET line == LowerAll(SplitLines(stdout)[i])
        IN  /\ StartsWith(line, <<"s", "t", "a", "t", "u", "s">>)
            /\ EndsWith(line, <<"i", "n", " ", "s", "y", "n", "c">>)

StatusQuery(rc) == [op |-> "run", cmd |-> "show /cm sync-status", rc |-> rc]

\* the run was aborted by its first task, the sync check
AbortedAtVerifySync ==
    /\ RealRun /\ deployer # None /\ deployer.sync_group # None
    /\ state = "Failed" /\ executed = <<1>> /\ call.fn = "verify_sync"

\* C5: with a sync group configured, when the cluster is not in sync or the
\* status query exits non-zero, the run aborts before any mutation: the one
\* status query is the only remote interaction of the whole run.
C5_Inv ==
    /\ (/\ RealRun /\ call.fn = "verify_sync"
        /\ \/ call.resps[1].rc # 0
           \/ ~HasInSyncLine(call.resps[1].stdout))
       => AbortedAtVerifySync
    /\ AbortedAtVerifySync =>
          /\ remote = <<StatusQuery(call.resps[1].rc)>>
          /\ IsFatal(raised)

C5_AbortBeforeMutation ==
    /\ []C5_Inv
    /\ [][AbortedAtVerifySync => (AbortedAtVerifySync' /\ remote' = remote)]_vars

C5_Witness ==
    /\ AbortedAtVerifySync
    /\ call.resps[1].rc = 0
    /\ remote = <<StatusQuery(0)>>

\* C6: verify_sync issues exactly one command, show /cm sync-status, and
\* succeeds if and only if that command exits zero and its output has a line
\* that starts with Status and ends with In Sync, compared case-insensitively;
\* for every other output it raises a fatal error.
C6_VerifySync ==
    call.fn = "verify_sync" =>
        /\ CallIO = <<StatusQuery(call.resps[1].rc)>>
        /\ (call.exc = None <=>
               call.resps[1].rc = 0 /\ HasInSyncLine(call.resps[1].stdout))
        /\ call.exc # None => IsFatal(call.exc)

C6_Witness ==
    /\ call.fn = "verify_sync" /\ call.exc = None
    /\ call.resps[1].stdout =
          <<"s", "t", "a", "t", "u", "s", ":", " ", "I", "N", " ", "S", "Y", "N", "C">>

\* the staged path of a component: staging_dir/filename
StagedPath(component) ==
    Str(PosixJoin(deployer.dest_temp_dir, component.filename))

\* C7: install_cert issues exactly one command per call,
\* install /sys crypto cert <name> from-local-file <staged path> for a
\* component labelled cert or fullchain and install /sys crypto key ... for
\* the component labelled key; when it exits non-zero install_cert raises a
\* fatal error and issues no further command.
C7_InstallCert ==
    (call.fn = "install_cert"
        /\ call.kwargs.component.label \in {"cert", "fullchain", "key"}) =>
        LET component == call.kwargs.component
            type == IF component.label = "key" THEN "key" ELSE "cert"
        IN  /\ CallIO =
                 << [ op  |-> "run",
                      cmd |-> "install /sys crypto " \o type \o " "
                              \o deployer.certificate_bundle.name
                              \o " from-local-file " \o StagedPath(component),
                      rc  |-> call.resps[1].rc ] >>
            /\ call.resps[1].rc # 0 => IsFatal(call.exc)
            /\ call.resps[1].rc = 0 => call.exc = None

C7_Witness ==
    /\ call.fn = "install_cert" /\ call.kwargs.component.label = "key"
    /\ call.resps[1].rc # 0 /\ IsFatal(call.exc)
    /\ Len(CallIO) = 1

\* the fingerprint occurs in the output
FingerprintListed(stdout, fp) ==
    \E i \in 0..Len(stdout) :
        /\ i + Len(fp) <= Len(stdout)
        /\ \A k \in 1..Len(fp) : stdout[i + k] = fp[k]

\* C8: verify_cert_installed issues exactly one command,
\* list /sys crypto <type> <name>; for a certificate-type component it
\* succeeds if and only if the command exits zero and the bundle's fingerprint
\* is a substring of the output; for the key component it succeeds for every
\* output whenever the command exits zero; a non-zero exit is fatal for both.
C8_VerifyCertInstalled ==
    (call.fn = "verify_cert_installed"
        /\ call.kwargs.component.label \in {"cert", "fullchain", "key"}) =>
        LET component == call.kwargs.component
            type == IF component.label = "key" THEN "key" ELSE "cert"
            resp == call.resps[1]
        IN  /\ CallIO =
                 << [ op  |-> "run",
                      cmd |-> "list /sys crypto " \o type \o " "
                              \o deployer.certificate_bundle.name,
                      rc  |-> resp.rc ] >>
            /\ type = "cert" =>
                  (call.exc = None <=>
                      /\ resp.rc = 0
                      /\ FingerprintListed(resp.stdout,
                                           deployer.certificate_bundle.fingerprint))
            /\ type = "key" => (call.exc = None <=> resp.rc = 0)
            /\ resp.rc # 0 => IsFatal(call.exc)
            /\ call.exc # None => IsFatal(call.exc)

C8_Witness ==
    /\ call.fn = "verify_cert_installed" /\ call.kwargs.component.label = "key"
    /\ call.resps[1].rc = 0 /\ call.exc = None
    /\ ~FingerprintListed(call.resps[1].stdout, deployer.certificate_bundle.fingerprint)

\* C9: manage_profile with a configured profile always issues exactly two
\* commands: first list /ltm profile <type> <name>, then create ... cert
\* <bundle name> key <bundle name> if the listing exited non-zero, or modify
\* with the same bindings if it exited zero; never both; a non-zero exit of
\* the listing is never fatal, one of the second command always is.
C9_ManageProfile ==
    (call.fn = "manage_profile" /\ deployer.profile # None) =>
        LET profile == deployer.profile.val
            target == " /ltm profile " \o profile.type \o " " \o profile.name
            bindings == " cert " \o deployer.certificate_bundle.name
                        \o " key " \o deployer.certificate_bundle.name
            rc1 == call.resps[1].rc
            rc2 == call.resps[2].rc
        IN  /\ Len(CallIO) = 2
            /\ CallIO[1] = [op |-> "run", cmd |-> "list" \o target, rc |-> rc1]
            /\ CallIO[2] = [op |-> "run",
                            cmd |-> (IF rc1 # 0 THEN "create" ELSE "modify")
                                    \o target \o bindings,
                            rc |-> rc2]
            /\ (call.exc # None <=> rc2 # 0)
            /\ call.exc # None => IsFatal(call.exc)

C9_Witness ==
    /\ call.fn = "manage_profile" /\ deployer.profile # None
    /\ call.resps[1].rc # 0 /\ call.resps[2].rc = 0
    /\ call.exc = None
    /\ Len(CallIO) = 2

\* C10: every call of _scp opens the transport exactly once if it is not open
\* when the call starts and not at all if it is open, and in both cases makes
\* exactly one put of the given local path to the given remote path, with the
\* transport open.
C10_ScpOpensOnce ==
    call.scp # None =>
        LET io == CallIO
            opens == {i \in DOMAIN io : io[i].op = "open"}
            puts == {i \in DOMAIN io : io[i].op = "put"}
        IN  /\ Cardinality(opens) = IF call.open_before THEN 0 ELSE 1
            /\ Cardinality(puts) = 1
            /\ \A i \in puts :
                  /\ io[i].local = call.scp.val.localpath
                  /\ io[i].remote = call.scp.val.remotepath
                  /\ call.open_before \/ \E j \in opens : j < i
            /\ transport

C10_Witness ==
    /\ call.fn = "_scp" /\ call.scp # None /\ call.open_before
    /\ \E i \in DOMAIN CallIO : CallIO[i].op = "put" /\ CallIO[i].ok
    /\ \A i \in DOMAIN CallIO : CallIO[i].op # "open"

\* the invocations of the external utility the latest call made
UtilityCalls == SelectSeq(CallIO, LAMBDA r : r.op = "subprocess")

\* C11: the negotiator's first invocation of the utility is always
\* scp -O <local> <host>:<remote>; if it exits zero it is the only one; if it
\* exits non-zero exactly one more follows, scp <local> <host>:<remote>
\* without the flag; never more than two, never the flag-less form first.
C11_Negotiation ==
    call.fn = "scp" =>
        LET target == call.kwargs.localfile \o " " \o call.kwargs.host \o ":"
                      \o call.kwargs.remotefile
        IN  /\ CallIO = UtilityCalls
            /\ Len(UtilityCalls) \in {1, 2}
            /\ UtilityCalls[1].cmd = "scp -O " \o target
            /\ UtilityCalls[1].rc = call.resps[1].rc
            /\ (Len(UtilityCalls) = 1 <=> call.resps[1].rc = 0)
            /\ Len(UtilityCalls) = 2 =>
                  /\ UtilityCalls[2].cmd = "scp " \o target
                  /\ UtilityCalls[2].rc = call.resps[2].rc

C11_Witness ==
    /\ call.fn = "scp" /\ call.resps[1].rc # 0 /\ call.resps[2].rc = 0
    /\ Len(UtilityCalls) = 2
    /\ UtilityCalls[2].cmd = "scp LOCALFILE something.domain.tld:REMOTEFILE"

\* C12: a non-zero exit of the attempt with the flag alone is never an error
\* for the caller; an error is raised if and only if the fallback attempt
\* fails too, it is a RuntimeError, and it is raised after the fallback
\* attempt was made.
C12_OnlyFallbackFatal ==
    call.fn = "scp" =>
        /\ (call.exc # None <=> (call.resps[1].rc # 0 /\ call.resps[2].rc # 0))
        /\ call.exc # None =>
              /\ IsFatal(call.exc)
              /\ Len(UtilityCalls) = 2
              /\ UtilityCalls[2].rc # 0
        /\ raised = call.exc

C12_Witness ==
    /\ call.fn = "scp" /\ call.resps[1].rc # 0 /\ call.resps[2].rc = 0
    /\ call.exc = None /\ raised = None

\* C13: two tasks are equal if and only if their exec operation, exec
\* positional arguments, exec keyword arguments, revert operation and revert
\* arguments (positional and keyword) are all equal; the name takes no part.
C13_TaskEquality ==
    call.fn = "__eq__" =>
        LET a == call.kwargs.self
            b == call.kwargs.othertask
        IN  call.ret <=>
               /\ a.exec_function = b.exec_function
               /\ a.exec_args = b.exec_args
               /\ a.exec_kwargs = b.exec_kwargs
               /\ a.revert_function = b.revert_function
               /\ a.revert_args = b.revert_args
               /\ a.revert_kwargs = b.revert_kwargs

\* a named task of a workflow equals the unnamed task with its operation and
\* arguments
C13_Witness ==
    /\ call.fn = "__eq__" /\ call.ret
    /\ call.kwargs.self.name = Some("Install key")
    /\ call.kwargs.othertask.name = None
    /\ call.kwargs.othertask.exec_function = "install_cert"

\* C14: execute() invokes the exec operation exactly once, with the call's
\* positional arguments followed by the bound ones, and with the keyword
\* arguments of both, a bound one overriding a call-time one of the same
\* name; a task with no bound arguments, called with none, invokes the
\* operation with no arguments.
C14_Execute ==
    call.fn = "execute" =>
        LET task == call.kwargs.task
            bound == task.exec_kwargs.items
            given == call.kwargs.kwargs
        IN  /\ Len(call.ret) = 1
            /\ call.ret[1].fn = task.exec_function
            /\ call.ret[1].args = call.kwargs.posargs \o task.exec_args.items
            /\ DOMAIN call.ret[1].kwargs = DOMAIN bound \cup DOMAIN given
            /\ \A k \in DOMAIN call.ret[1].kwargs :
                  call.ret[1].kwargs[k] = IF k \in DOMAIN bound THEN bound[k] ELSE given[k]

C14_Witness ==
    /\ call.fn = "execute"
    /\ call.kwargs.kwargs = [arg1 |-> "call_value"]
    /\ call.kwargs.task.exec_kwargs.items = [arg1 |-> "arg1_value", arg2 |-> "arg2_value"]
    /\ call.ret[1].kwargs = [arg1 |-> "arg1_value", arg2 |-> "arg2_value"]

\* C15: revert() on a task that has a revert operation invokes that operation
\* with the task's own bound revert arguments, positional and keyword.
C15_RevertUsesBoundArgs ==
    (/\ call.fn = "revert"
     /\ call.kwargs.task.revert_function # None
     /\ call.kwargs.posargs = <<>> /\ call.kwargs.kwargs = <<>>) =>
        call.ret = << [ fn     |-> call.kwargs.task.revert_function.val,
                        args   |-> call.kwargs.task.revert_args.items,
                        kwargs |-> call.kwargs.task.revert_kwargs.items ] >>

IsPrefix(s, t) == Len(s) <= Len(t) /\ SubSeq(t, 1, Len(s)) = s

\* C16: in every run of entrypoint, dry-run or not, ended or not, succeeded
\* or failed at any task, no revert() and no revert operation has been
\* called, and the tasks executed before a failure stay executed: nothing is
\* taken back from the record of executed tasks or of requests made.
C16_Inv ==
    mode = "entrypoint" =>
        /\ call.fn # "revert"
        /\ call.fn # "none" => call.reverted = <<>>
        /\ \A i \in DOMAIN workflow : workflow[i].revert_function = None
        /\ state = "Failed" => executed = UpTo(idx)

C16_NeverReverts ==
    /\ []C16_Inv
    /\ [][mode = "entrypoint" =>
            IsPrefix(executed, executed') /\ IsPrefix(remote, remote')]_vars

C16_Witness ==
    /\ mode = "entrypoint" /\ state = "Failed"
    /\ Len(executed) >= 3 /\ call.reverted = <<>>
    /\ Len(remote) >= 3

\* C17: argparse_post raises a configuration error if and only if exactly
\* one of profile name and profile type is given or the host is missing or
\* empty; both given and neither given pass with a host; it makes no remote
\* interaction in any case.
C17_ArgparsePost ==
    call.fn = "argparse_post" =>
        LET a == call.kwargs.args
            nameGiven == a.profile_name # None
            typeGiven == a.profile_type # None
            hostGiven == a.host # None /\ a.host # Some("")
        IN  /\ (call.exc # None <=> (nameGiven # typeGiven \/ ~hostGiven))
            /\ call.exc # None => call.exc.val.type = "ArgumentTypeError"
            /\ raised = call.exc
            /\ CallIO = <<>>
            /\ transport = call.open_before

C17_Witness ==
    /\ call.fn = "argparse_post"
    /\ call.kwargs.args.host = Some("")
    /\ call.kwargs.args.profile_name # None /\ call.kwargs.args.profile_type # None
    /\ call.exc # None /\ call.exc.val.type = "ArgumentTypeError"

\* the transfers and the management-shell commands of the latest call
CallPuts == SelectSeq(CallIO, LAMBDA r : r.op = "put")

CallCommands == SelectSeq(CallIO, LAMBDA r : r.op = "run")

\* C18: put_bigip_file makes exactly one transfer per call, from the
\* component's local path to the remote path staging_dir/filename, and
\* issues no management-shell command.
C18_PutBigipFile ==
    call.fn = "put_bigip_file" =>
        /\ Len(CallPuts) = 1
        /\ CallPuts[1].local = call.kwargs.component.path
        /\ CallPuts[1].remote = StagedPath(call.kwargs.component)
        /\ ~CallPuts[1].empty
        /\ CallCommands = <<>>

C18_Witness ==
    /\ call.fn = "put_bigip_file" /\ call.exc = None
    /\ call.kwargs.component.label = "key"
    /\ CallPuts[1].remote = "/var/tmp/privkey.pem"
    /\ CallPuts[1].local = "/etc/letsencrypt/live/host.domain.tld/privkey.pem"

\* C19: zero_bigip_file makes exactly one transfer per call, of a zero-byte
\* local file, to the remote path staging_dir/filename, the path the upload
\* of that component used (in a run every zeroed path was uploaded to
\* before); it issues no delete and no other management-shell command.
C19_ZeroBigipFile ==
    /\ call.fn = "zero_bigip_file" =>
          /\ Len(CallPuts) = 1
          /\ CallPuts[1].empty
          /\ CallPuts[1].remote = StagedPath(call.kwargs.component)
          /\ CallCommands = <<>>
    /\ mode = "entrypoint" =>
          \A i \in DOMAIN remote :
              (remote[i].op = "put" /\ remote[i].empty) =>
                  \E j \in 1..(i - 1) :
                      /\ remote[j].op = "put" /\ ~remote[j].empty /\ remote[j].ok
                      /\ remote[j].remote = remote[i].remote

C19_Witness ==
    /\ mode = "entrypoint" /\ call.fn = "zero_bigip_file" /\ call.exc = None
    /\ call.kwargs.component.label = "key"
    /\ CallPuts[1].empty
    /\ CallPuts[1].remote = "/remote/path/privkey.pem"

\* C20: sync issues exactly one command, run /cm config-sync to-group
\* <sync group>, naming the configured sync group, and raises a fatal error
\* when the command exits non-zero.
C20_Sync ==
    (call.fn = "sync" /\ deployer.sync_group # None) =>
        /\ CallIO = << [ op  |-> "run",
                         cmd |-> "run /cm config-sync to-group "
                                 \o deployer.sync_group.val,
                         rc  |-> call.resps[1].rc ] >>
        /\ call.resps[1].rc # 0 => IsFatal(call.exc)
        /\ call.resps[1].rc = 0 => call.exc = None

C20_Witness ==
    /\ call.fn = "sync" /\ deployer.sync_group = Some("test_sync_group")
    /\ call.resps[1].rc # 0 /\ IsFatal(call.exc)
    /\ Len(CallIO) = 1

UpperHexDigits ==
    <<"0", "1", "2", "3", "4", "5", "6", "7", "8", "9", "A", "B", "C", "D", "E", "F">>

\* the certificate behind the deployer's bundle
BundleCert == CertAt(deployer.certificate_bundle.path)

\* C21: the fingerprint is SHA256/ followed by the digest's hex string,
\* upper-cased, in consecutive two-character groups joined by colons: for the
\* 32-byte digest exactly 32 groups and 31 colons; computing it again on the
\* same certificate gives the same string.
C21_Fingerprint ==
    deployer # None =>
        LET fp == deployer.certificate_bundle.fingerprint
            digest == BundleCert.digest
            body == SubSeq(fp, 8, Len(fp))
        IN  /\ SubSeq(fp, 1, 7) = <<"S", "H", "A", "2", "5", "6", "/">>
            /\ Len(digest) = 32
            /\ Len(body) = 32 * 2 + 31
            /\ Cardinality({i \in DOMAIN body : body[i] = ":"}) = 31
            /\ \A g \in 1..32 :
                  /\ body[3 * g - 2] = UpperHexDigits[(digest[g] \div 16) + 1]
                  /\ body[3 * g - 1] = UpperHexDigits[(digest[g] % 16) + 1]
                  /\ g < 32 => body[3 * g] = ":"
            /\ _fingerprint(digest) = fp

C21_Witness ==
    /\ mode = "entrypoint" /\ deployer # None
    /\ SubSeq(deployer.certificate_bundle.fingerprint, 1, 12)
         = <<"S", "H", "A", "2", "5", "6", "/", "2", "5", ":", "4", "A">>

AllowedNameChars ==
    Range(LowerLetters) \cup Range(UpperLetters) \cup Range(Digits) \cup {"_", ".", "-"}

\* C22: the bundle's name is the explicit override, unchanged, when one is
\* given; otherwise the sanitized common name, a dot and the expiry, where
\* sanitizing replaces every character outside [A-Za-z0-9_.-] with _, keeps
\* every other character and the length, and leaves a common name of allowed
\* characters unchanged.
C22_BundleName ==
    (mode = "entrypoint" /\ deployer # None) =>
        LET cn == BundleCert.common_name
            name == deployer.certificate_bundle.name
        IN  IF args.cert_name # None
            THEN name = args.cert_name.val
            ELSE \E safe \in {Sanitize(cn)} :
                    /\ name = Str(safe) \o "." \o BundleCert.expires
                    /\ Len(safe) = Len(cn)
                    /\ \A i \in DOMAIN cn :
                          safe[i] = IF cn[i] \in AllowedNameChars THEN cn[i] ELSE "_"
                    /\ (\A i \in DOMAIN cn : cn[i] \in AllowedNameChars) => safe = cn

C22_Witness ==
    /\ mode = "entrypoint" /\ deployer # None /\ args.cert_name = None
    /\ deployer.certificate_bundle.name = "_.domain.tld.2027-03-01T00:00:00+00:00"

\* C23: main(argv) hands control to the framework exactly once, with the
\* deployer list [BigipDeployer] and an argument vector that is the subcommand
\* bigip followed by argv unchanged and in order; the caller's list is as it was.
C23_MainDelegation ==
    call.fn = "main" =>
        LET argv == call.kwargs.argv
            made == call.ret.calls
        IN  /\ Len(made) = 1
            /\ made[1].fn = "framework_main"
            /\ made[1].deployers = <<"BigipDeployer">>
            /\ Len(made[1].argv) = Len(argv) + 1
            /\ made[1].argv[1] = "bigip"
            /\ \A i \in DOMAIN argv : made[1].argv[i + 1] = argv[i]
            /\ call.ret.argv = argv
            /\ call.exc = None

C23_Witness ==
    /\ call.fn = "main"
    /\ call.kwargs.argv = <<"-h">>
    /\ call.ret.calls[1].argv = <<"bigip", "-h">>

\* the steps that change the appliance's configuration
MutationSteps == {"install_cert", "manage_profile"}

\* C24: whenever the sync task runs, every configuration mutation made
\* earlier in the run (certificate install, key install, profile
\* create/modify) is followed, before the sync, by a successful
\* save /sys config step.
C24_DurableBeforeSync ==
    (RealRun /\ call.fn = "sync") =>
        LET s == Len(executed)
        IN  \A i \in 1..(s - 1) :
                workflow[executed[i]].exec_function \in MutationSteps =>
                    \E j \in (i + 1)..(s - 1) :
                        /\ workflow[executed[j]].exec_function = "save"
                        /\ \E k \in DOMAIN remote :
                              /\ remote[k].op = "run"
                              /\ remote[k].cmd = "save /sys config"
                              /\ remote[k].rc = 0

\* the requests a run makes for one of its two artifacts
IsUpload(r, component) ==
    /\ r.op = "put" /\ ~r.empty
    /\ r.local = component.path /\ r.remote = StagedPath(component)

IsInstall(r, type, component) ==
    /\ r.op = "run"
    /\ r.cmd = "install /sys crypto " \o type \o " " \o deployer.certificate_bundle.name
               \o " from-local-file " \o StagedPath(component)

IsVerify(r, type) ==
    /\ r.op = "run"
    /\ r.cmd = "list /sys crypto " \o type \o " " \o deployer.certificate_bundle.name

\* install after a successful upload, verify after a successful install
ArtifactInOrder(type, component) ==
    \A i \in DOMAIN remote :
        /\ IsInstall(remote[i], type, component) =>
              \E j \in 1..(i - 1) : IsUpload(remote[j], component) /\ remote[j].ok
        /\ IsVerify(remote[i], type) =>
              \E j \in 1..(i - 1) :
                  IsInstall(remote[j], type, component) /\ remote[j].rc = 0

\* C25: in every non-dry-run execution and for each of the two artifacts,
\* the install command is issued only after the artifact's upload succeeded
\* and the verify listing only after its install command succeeded; the
\* fullchain's upload, install and verify all precede the key's.
C25_ArtifactOrder ==
    (RealRun /\ deployer # None) =>
        LET fullchain == deployer.certificate_bundle.fullchain
            key == deployer.certificate_bundle.key
        IN  /\ ArtifactInOrder("cert", fullchain)
            /\ ArtifactInOrder("key", key)
            /\ \A i \in DOMAIN remote :
                  (\/ IsUpload(remote[i], key)
                   \/ IsInstall(remote[i], "key", key)
                   \/ IsVerify(remote[i], "key")) =>
                      \E u, n, v \in 1..(i - 1) :
                          /\ u < n /\ n < v
                          /\ IsUpload(remote[u], fullchain)
                          /\ IsInstall(remote[n], "cert", fullchain)
                          /\ IsVerify(remote[v], "cert")

C25_Witness ==
    /\ RealRun /\ call.fn = "verify_cert_installed" /\ call.exc = None
    /\ call.kwargs.component.label = "key"
    /\ IsVerify(remote[Len(remote)], "key")
    /\ \E i \in DOMAIN remote :
          IsInstall(remote[i], "cert", deployer.certificate_bundle.fullchain)

\* C26: for every component label (cert, fullchain, key, intermediates),
\* install_cert and verify_cert_installed use the object type key only for
\* the component labelled key: no component with another label is installed
\* or listed under the object type key.
C26_KeyTypeOnlyForKey ==
    (/\ call.fn \in {"install_cert", "verify_cert_installed"}
     /\ call.kwargs.component.label # "key") =>
        \A i \in DOMAIN CallIO :
            /\ ~IsInstall(CallIO[i], "key", call.kwargs.component)
            /\ ~IsVerify(CallIO[i], "key")

\* the step methods that issue management-shell commands
CommandSteps ==
    {"verify_sync", "install_cert", "verify_cert_installed", "save",
     "manage_profile", "sync"}

\* the profile listing, whose non-zero exit means the profile does not exist
IsProfileListing(i) == call.fn = "manage_profile" /\ i = 1

\* C27: no remote command is ever retried and every command failure is fatal
\* at its own step: each of verify_sync, install_cert, verify_cert_installed,
\* save, manage_profile and sync issues each of its commands at most once
\* (and a run of entrypoint issues no command twice); a non-zero exit of any
\* command other than the profile listing ends the step there with a
\* RuntimeError, never with the raw UnexpectedExit and never with success.
C27_NoRetryAllFatal ==
    /\ call.fn \in CommandSteps =>
          LET cmds == CallCommands
          IN  /\ \A i, j \in DOMAIN cmds : i # j => cmds[i].cmd # cmds[j].cmd
              /\ \A i \in DOMAIN cmds :
                    (cmds[i].rc # 0 /\ ~IsProfileListing(i)) =>
                        /\ i = Len(cmds)
                        /\ IsFatal(call.exc)
                        /\ raised = call.exc
                        /\ mode = "entrypoint" => state = "Failed"
    /\ mode = "entrypoint" =>
          \A i, j \in DOMAIN remote :
              (i # j /\ remote[i].op = "run" /\ remote[j].op = "run") =>
                  remote[i].cmd # remote[j].cmd

C27_Witness ==
    /\ mode = "entrypoint" /\ call.fn = "manage_profile" /\ state = "Failed"
    /\ Len(CallCommands) = 2
    /\ CallCommands[1].rc # 0 /\ CallCommands[2].rc # 0
    /\ IsFatal(call.exc) /\ raised = call.exc
    /\ Len(remote) > 10

\* the deployer's methods that talk to the appliance
StepMethods ==
    CommandSteps \cup {"put_bigip_file", "zero_bigip_file", "_scp"}

\* the requests of the latest call that ended in an error which is not a
\* command's non-zero exit: a command under which the connection was lost
\* (response k of the call) or a transfer that failed
LostCommands ==
    {k \in DOMAIN CallCommands : k \in DOMAIN call.resps /\ Lost(call.resps[k])}

FailedPuts == {i \in DOMAIN CallIO : CallIO[i].op = "put" /\ ~CallIO[i].ok}

\* the error reached the caller of the method, and of entrypoint, as it was
PassedThrough(err) ==
    /\ call.exc = err
    /\ raised = err
    /\ mode = "entrypoint" =>
          /\ state = "Failed"
          /\ executed = UpTo(idx)
          /\ workflow[idx].exec_function = call.fn

\* C28: an error that is not the remote-command-failed condition (the
\* connection lost under a command, a transfer failing during upload or
\* zero-out) passes through every step method and through task.execute
\* unchanged: not swallowed, not converted, no request follows it in the
\* method, and it ends the workflow at that task.
C28_OtherErrorsPassThrough ==
    call.fn \in StepMethods =>
        /\ \A k \in LostCommands :
              /\ k = Len(CallCommands)
              /\ CallIO[Len(CallIO)] = CallCommands[k]
              /\ PassedThrough(call.resps[k].raises)
        /\ \A i \in FailedPuts :
              /\ i = Len(CallIO)
              /\ PassedThrough(SCPException)
        /\ (call.exc # None /\ ~IsFatal(call.exc)) =>
              (LostCommands # {} \/ FailedPuts # {})

\* the connection is lost under the create command of manage_profile, in a
\* run of entrypoint
C28_Witness ==
    /\ mode = "entrypoint" /\ call.fn = "manage_profile" /\ state = "Failed"
    /\ LostCommands = {2}
    /\ call.exc = SSHException /\ raised = SSHException

\* the error verify_cert_installed raises when the listing exits non-zero
ListingFailure(type) ==
    RuntimeError("Failed verifying " \o type \o " '" \o deployer.certificate_bundle.name
                 \o "' present on remote")

\* C29: for a certificate-type component, verify_cert_installed reports a
\* fingerprint mismatch (listing exited zero, fingerprint absent) with an
\* error distinct from the one it reports when the listing exits non-zero:
\* the mismatch error is not turned into the command-failure error, and the
\* listing is issued once, not again.
C29_MismatchDistinct ==
    (/\ call.fn = "verify_cert_installed"
     /\ call.kwargs.component.label \in {"cert", "fullchain"}
     /\ ~Lost(call.resps[1])) =>
        LET resp == call.resps[1]
            mismatch == /\ resp.rc = 0
                        /\ ~FingerprintListed(resp.stdout,
                                              deployer.certificate_bundle.fingerprint)
        IN  /\ Len(CallCommands) = 1 /\ Len(CallIO) = 1
            /\ resp.rc # 0 => call.exc = ListingFailure("cert")
            /\ mismatch =>
                  /\ IsFatal(call.exc)
                  /\ call.exc # ListingFailure("cert")
                  /\ call.exc = RuntimeError("Failed to match certificate fingerprint in '"
                                             \o deployer.certificate_bundle.name
                                             \o "' on remote")
                  /\ raised = call.exc

C29_Witness ==
    /\ call.fn = "verify_cert_installed"
    /\ call.kwargs.component.label = "fullchain"
    /\ call.resps[1].rc = 0 /\ call.resps[1].stdout # <<>>
    /\ ~FingerprintListed(call.resps[1].stdout, deployer.certificate_bundle.fingerprint)
    /\ IsFatal(call.exc) /\ call.exc # ListingFailure("cert")
    /\ Len(CallIO) = 1

\* C30: revert() on a task constructed without a revert operation does
\* nothing, whatever the arguments of the call and whatever revert arguments
\* the task was given: it calls neither the exec operation nor any other,
\* raises nothing and makes no request.
C30_RevertWithoutOperation ==
    (call.fn = "revert" /\ call.kwargs.task.revert_function = None) =>
        /\ call.ret = <<>>
        /\ \A i \in DOMAIN call.ret : call.ret[i].fn # call.kwargs.task.exec_function
        /\ call.exc = None /\ raised = None
        /\ CallIO = <<>>

C30_Witness ==
    /\ call.fn = "revert" /\ call.kwargs.task.revert_function = None
    /\ call.kwargs.task.revert_args = PyList(<<"r">>)
    /\ call.kwargs.posargs = <<"p">> /\ call.kwargs.kwargs = [k |-> "call_value"]
    /\ call.ret = <<>>

\* C31: get_workflow is pure: it issues no remote command, transfers no
\* file, does not open the transport and changes no field of the deployer;
\* called again on the unchanged deployer it returns a task sequence equal,
\* element by element, to the one it returned before.
C31_GetWorkflowPure ==
    [][call'.fn = "get_workflow" =>
          /\ remote' = remote /\ transport' = transport
          /\ deployer' = deployer
          /\ raised' = raised /\ console' = console
          /\ workflow # <<>> =>
                /\ Len(workflow') = Len(workflow)
                /\ \A i \in DOMAIN workflow : __eq__(workflow'[i], workflow[i])]_vars

\* get_workflow has returned for the second time at least (the first call's
\* list is the caller's to compare with), on a connection other calls opened
C31_Witness ==
    /\ call.fn = "get_workflow" /\ transport
    /\ Len(workflow) = 12
    /\ deployer.sync_group # None /\ deployer.profile # None

\* the requests to open the connection among those recorded
Opens == {i \in DOMAIN remote : remote[i].op = "open"}

\* the requests a step has added to the record
Added == SubSeq(remote', Len(remote) + 1, Len(remote'))

\* C32: the transport is monotone within an invocation: no operation closes
\* the connection or its transport, so once a transfer has opened it it is
\* open in every later state, and across any sequence of transfers the
\* connection is asked to open at most once.
C32_TransportMonotone ==
    /\ [](/\ Cardinality(Opens) <= 1
          /\ (\E i \in DOMAIN remote : remote[i].op \in {"open", "put", "run"})
                => transport)
    /\ [][/\ transport => transport'
          /\ (transport /\ IsPrefix(remote, remote')) =>
                \A i \in DOMAIN Added : Added[i].op # "open"]_vars

\* a run that starts with a transfer: one request to open, four transfers
C32_Witness ==
    /\ mode = "entrypoint" /\ state = "Succeeded" /\ transport
    /\ Cardinality(Opens) = 1
    /\ Cardinality({i \in DOMAIN remote : remote[i].op = "put"}) = 4
    /\ remote[1].op = "open"

\* the positions of the manage-profile task in the workflow
ProfileTasks == {i \in DOMAIN workflow : workflow[i].exec_function = "manage_profile"}

\* C33: the deployer entrypoint builds has a profile that is absent or has
\* both a name and a type: it is present exactly when both the profile name
\* and the profile type arguments are given, with those values, and the
\* manage-profile task is in the workflow exactly then; with only one of the
\* two given there is no profile and no profile task.
C33_ProfileBothOrNeither ==
    (mode = "entrypoint" /\ deployer # None) =>
        LET both == args.profile_name # None /\ args.profile_type # None
        IN  /\ deployer.profile # None <=> both
            /\ both => deployer.profile
                          = Some([name |-> args.profile_name.val,
                                  type |-> args.profile_type.val])
            /\ Cardinality(ProfileTasks) = IF both THEN 1 ELSE 0

C33_Witness ==
    /\ mode = "entrypoint" /\ state = "Succeeded" /\ ~args.dry_run
    /\ args.profile_name # None /\ args.profile_type = None
    /\ deployer.profile = None /\ ProfileTasks = {}

\* the remote interactions of a run: commands and transfers, in order
Interactions == SelectSeq(remote, LAMBDA r : r.op \in {"run", "put"})

\* what an interaction is: the command, or the transfer's source (the
\* component's file, or an empty file) and destination
Signature(r) ==
    IF r.op = "run" THEN <<"run", r.cmd>>
    ELSE <<"put", IF r.empty THEN "empty file" ELSE r.local, r.remote>>

\* the interactions of a whole run of the deployer d; the profile command is
\* create or modify
ExpectedInteractions(d) ==
    LET b == d.certificate_bundle
        staged(c) == Str(PosixJoin(d.dest_temp_dir, c.filename))
        one(s) == <<{s}>>
        artifact(type, c) ==
            << {<<"put", c.path, staged(c)>>},
               {<<"run", "install /sys crypto " \o type \o " " \o b.name
                         \o " from-local-file " \o staged(c)>>},
               {<<"run", "list /sys crypto " \o type \o " " \o b.name>>} >>
        target == "/ltm profile " \o d.profile.val.type \o " " \o d.profile.val.name
        bindings == " cert " \o b.name \o " key " \o b.name
    IN  (IF d.sync_group # None THEN one(<<"run", "show /cm sync-status">>) ELSE <<>>)
        \o artifact("cert", b.fullchain)
        \o artifact("key", b.key)
        \o one(<<"put", "empty file", staged(b.fullchain)>>)
        \o one(<<"put", "empty file", staged(b.key)>>)
        \o one(<<"run", "save /sys config">>)
        \o (IF d.profile # None
            THEN << {<<"run", "list " \o target>>},
                    {<<"run", "create " \o target \o bindings>>,
                     <<"run", "modify " \o target \o bindings>>} >>
            ELSE <<>>)
        \o (IF d.sync_group # None
            THEN one(<<"run", "run /cm config-sync to-group " \o d.sync_group.val>>)
            ELSE <<>>)

\* C34: a successful non-dry-run run with a sync group and a profile makes
\* exactly these remote interactions, in this order and nothing else: status
\* query, transfer fullchain, install cert, list cert, transfer key, install
\* key, list key, empty file to the fullchain's staged path, empty file to
\* the key's staged path, save config, list profile, create-or-modify
\* profile, config-sync; without a sync group the first and the last are
\* absent, without a profile the two profile commands are.
C34_ExactInteractions ==
    (RealRun /\ state = "Succeeded") =>
        LET expected == ExpectedInteractions(deployer)
        IN  /\ Len(Interactions) = Len(expected)
            /\ Len(expected) = 9 + (IF deployer.profile # None THEN 2 ELSE 0)
                                  + (IF deployer.sync_group # None THEN 2 ELSE 0)
            /\ \A i \in DOMAIN expected : Signature(Interactions[i]) \in expected[i]

C34_Witness ==
    /\ RealRun /\ state = "Succeeded"
    /\ deployer.sync_group # None /\ deployer.profile # None
    /\ Len(Interactions) = 13
    /\ Interactions[12].cmd = "create /ltm profile client-ssl test_profile"
                              \o " cert mycert key mycert"

\* the upload, install and verify tasks of the two artifacts
ArtifactTasks ==
    {i \in DOMAIN workflow :
        workflow[i].exec_function
            \in {"put_bigip_file", "install_cert", "verify_cert_installed"}}

\* the zero-out transfers recorded
ZeroOuts == {i \in DOMAIN remote : remote[i].op = "put" /\ remote[i].empty}

\* the successful requests an artifact needs before anything is zeroed
ArtifactDoneBefore(n, type, component) ==
    /\ \E j \in 1..(n - 1) : IsUpload(remote[j], component) /\ remote[j].ok
    /\ \E j \in 1..(n - 1) : IsInstall(remote[j], type, component) /\ remote[j].rc = 0
    /\ \E j \in 1..(n - 1) : IsVerify(remote[j], type) /\ remote[j].rc = 0

\* C35: a zero-out transfer is issued only after the upload, install and
\* verify of both artifacts have all succeeded; so in every run that fails at
\* one of those six tasks no zero-out transfer is ever issued, and every
\* artifact uploaded before the failure, the private key included, is left
\* as uploaded in the staging directory when the run ends.
C35_ZeroOnlyAfterAllVerified ==
    (RealRun /\ deployer # None) =>
        /\ Cardinality(ArtifactTasks) = 6
        /\ \A n \in ZeroOuts :
              /\ ArtifactDoneBefore(n, "cert", deployer.certificate_bundle.fullchain)
              /\ ArtifactDoneBefore(n, "key", deployer.certificate_bundle.key)
              /\ \A i \in ArtifactTasks :
                    /\ \E k \in DOMAIN executed : executed[k] = i
                    /\ ~(state = "Failed" /\ idx = i)
        /\ (state = "Failed" /\ idx \in ArtifactTasks) => ZeroOuts = {}

\* the run failed at the verification of the key: the key is in the staging
\* directory and nothing was zeroed
C35_Witness ==
    /\ RealRun /\ state = "Failed"
    /\ workflow[idx].exec_function = "verify_cert_installed"
    /\ workflow[idx].exec_kwargs.items.component.label = "key"
    /\ \E j \in DOMAIN remote :
          IsUpload(remote[j], deployer.certificate_bundle.key) /\ remote[j].ok
    /\ ZeroOuts = {}

\* C36: every SCP client that _scp creates is closed by the time _scp
\* finishes, whether the put succeeds or raises; no run ends with an SCP
\* client created and never closed.
C36_ScpClientClosed ==
    /\ call.scp # None =>
          \A i \in DOMAIN CallIO :
              CallIO[i].op = "SCPClient" =>
                  \E j \in (i + 1)..Len(CallIO) : CallIO[j].op = "close"
    /\ (mode = "entrypoint" /\ state \in {"Succeeded", "Failed"}) =>
          Cardinality({i \in DOMAIN remote : remote[i].op = "SCPClient"})
            = Cardinality({i \in DOMAIN remote : remote[i].op = "close"})

\* C37: the two entry points, main of the __main__ module and main of the
\* _main module, are equivalent: for every argv both make the same single
\* framework call with the same arguments, and neither has another
\* observable effect: no file is written, no other state is changed.
C37_EntryPointsEquivalent ==
    call.fn \in {"main", "__main__.main"} =>
        LET argv == call.kwargs.argv
        IN  /\ call.ret.calls = main(argv).calls
            /\ call.ret.calls = __main__main(argv).calls
            /\ Len(call.ret.calls) = 1
            /\ call.ret.argv = argv
            /\ call.ret.files = <<>>
            /\ CallIO = <<>>

\* the optional argument bundles of the constructor, by position, and the
\* empty value of each: a list for the positional, a dict for the keyword ones
Bundles == {3, 4, 6, 7}

EmptyBundle(k) == IF k \in {3, 6} THEN PyList(<<>>) ELSE PyDict(<<>>)

\* C38: for task equality, omitting an optional argument bundle at
\* construction is the same as passing it empty: for each of exec_args,
\* exec_kwargs, revert_args and revert_kwargs, a task built with the bundle
\* omitted equals the otherwise identical task built with it given as an
\* empty list (positional) or an empty dict (keyword).
C38_OmittedEqualsEmpty ==
    call.fn = "__eq__" =>
        \A t \in SampleTaskArgs, k \in Bundles :
            (/\ t[k] = None
             /\ call.kwargs.self = Construct(t)
             /\ call.kwargs.othertask = Construct([t EXCEPT ![k] = EmptyBundle(k)])) =>
                call.ret

\* C39: manage_profile called on a deployer whose profile is absent raises a
\* fatal error before issuing any remote command: no command is run, no
\* file transferred, and the transport is not opened.
C39_NoProfileNoCommand ==
    (call.fn = "manage_profile" /\ deployer.profile = None) =>
        /\ IsFatal(call.exc) /\ raised = call.exc
        /\ CallIO = <<>>
        /\ transport = call.open_before

C39_Witness ==
    /\ call.fn = "manage_profile" /\ deployer.profile = None
    /\ IsFatal(call.exc) /\ CallIO = <<>>
    /\ ~call.open_before /\ ~transport

====
